---- MODULE Spec2Model ----
(***************************************************************************)
(* A model of the IPTV M3U8 manager (src/iptv_manager.py): the playlist    *)
(* codec (generate_m3u8_content / parse_m3u8_content), the JSON store      *)
(* (save_channels / load_channels) and the MainWindow handlers that mutate *)
(* self.channels.                                                          *)
(*                                                                         *)
(* A text is a sequence of tokens.  A token is either one character or one *)
(* of the literal words the code looks for ("#EXTM3U", "#EXTINF:",         *)
(* "tvg-id=", ...), so that str.startswith, str.split, str.splitlines,     *)
(* str.strip and re.search are computed on the text as the code computes   *)
(* them on characters.                                                     *)
(***************************************************************************)
EXTENDS Integers, Sequences, FiniteSets, TLC

VARIABLES channels, file, nextId, op, exported, parsed, faults, retired,
          json_files, items, playlist_lines, stream_id, pc

\* The state of the converter (src/iptv_request.py), a program of its own.
request_vars == <<json_files, items, playlist_lines, stream_id, pc>>

vars == <<channels, file, nextId, op, exported, parsed, faults, retired,
          json_files, items, playlist_lines, stream_id, pc>>

\* The local stream_id before its first assignment in a call.
Unbound == "unbound"

\* The converter is not running.
NoRequest ==
    /\ json_files = <<>>
    /\ items = <<>>
    /\ playlist_lines = <<>>
    /\ stream_id = Unbound
    /\ pc = "idle"

----------------------------------------------------------------------------
(* Tokens *)

SP == " "
NL == "\n"
QUOTE == "\""
COMMA == ","
BACKSLASH == "\\"

\* The characters str.strip() removes; NL stands for every line boundary
\* str.splitlines() splits on, SP for every other whitespace character.
Whitespace == {SP, NL}

----------------------------------------------------------------------------
(* Python str and list primitives *)

Last(s) == s[Len(s)]

\* str.strip()
RECURSIVE lstrip(_)
lstrip(s) ==
    IF s # <<>> /\ Head(s) \in Whitespace THEN lstrip(Tail(s)) ELSE s

RECURSIVE rstrip(_)
rstrip(s) ==
    IF s # <<>> /\ Last(s) \in Whitespace
    THEN rstrip(SubSeq(s, 1, Len(s) - 1))
    ELSE s

strip(s) == rstrip(lstrip(s))

\* str.split(sep): the pieces between the occurrences of sep, always at
\* least one piece.
RECURSIVE split(_, _)
split(s, sep) ==
    IF \E i \in 1..Len(s) : s[i] = sep
    THEN LET i == CHOOSE k \in 1..Len(s) :
                      s[k] = sep /\ \A j \in 1..(k - 1) : s[j] # sep
         IN  <<SubSeq(s, 1, i - 1)>> \o split(SubSeq(s, i + 1, Len(s)), sep)
    ELSE <<s>>

\* str.splitlines(): as split on the line boundary, except that no empty
\* piece follows a final line boundary ("" has no lines).
splitlines(s) ==
    LET p == split(s, NL)
    IN  IF Last(p) = <<>> THEN SubSeq(p, 1, Len(p) - 1) ELSE p

\* str.startswith(word), word one token
startswith(s, word) == s # <<>> /\ Head(s) = word

\* [f(x) for x in s if keep(x)] with f = strip and keep = non-blank
RECURSIVE StrippedNonBlank(_)
StrippedNonBlank(ls) ==
    IF ls = <<>> THEN <<>>
    ELSE IF strip(Head(ls)) # <<>>
         THEN <<strip(Head(ls))>> \o StrippedNonBlank(Tail(ls))
         ELSE StrippedNonBlank(Tail(ls))

\* re.search(key + '"([^"]*)"', line): group(1) of the leftmost match, or
\* no match.  key is one token.  A match starts at the leftmost key that is
\* followed by a quote that is closed later; group(1) runs to the next quote.
re_search(key, line) ==
    LET starts == {i \in 1..Len(line) :
                      /\ i + 2 <= Len(line)
                      /\ line[i] = key
                      /\ line[i + 1] = QUOTE
                      /\ \E j \in (i + 2)..Len(line) : line[j] = QUOTE}
    IN  IF starts = {} THEN [matched |-> FALSE, group1 |-> <<>>]
        ELSE LET i == CHOOSE k \in starts : \A m \in starts : k <= m
                 j == CHOOSE k \in (i + 2)..Len(line) :
                          /\ line[k] = QUOTE
                          /\ \A m \in (i + 2)..(k - 1) : line[m] # QUOTE
             IN  [matched |-> TRUE, group1 |-> SubSeq(line, i + 2, j - 1)]

----------------------------------------------------------------------------
(* The data model *)

Channel(id, data) ==
    [id |-> id, name |-> data.name, url |-> data.url, logo |-> data.logo,
     group |-> data.group, tvgId |-> data.tvgId]

\* The five fields of a record without its id.
Fields(ch) ==
    [name |-> ch.name, url |-> ch.url, logo |-> ch.logo,
     group |-> ch.group, tvgId |-> ch.tvgId]

----------------------------------------------------------------------------
(* The M3U8 codec *)

\* An export that leaves the logo attribute out of the info line.
ExtInf_NoLogo(channel) ==
    <<"#EXTINF:", "-1", SP, "tvg-id=", QUOTE>> \o strip(channel.tvgId)
    \o <<QUOTE, SP, "tvg-name=", QUOTE>> \o strip(channel.name)
    \o <<QUOTE, SP, "group-title=", QUOTE>> \o strip(channel.group)
    \o <<QUOTE, COMMA>> \o strip(channel.name)

ExtInf(channel) ==
    LET name == strip(channel.name)
        logo == strip(channel.logo)
        group == strip(channel.group)
        tvg_id == strip(channel.tvgId)
        url == strip(channel.url)
    IN  <<"#EXTINF:", "-1", SP, "tvg-id=", QUOTE>> \o tvg_id
        \o <<QUOTE, SP, "tvg-name=", QUOTE>> \o name
        \o <<QUOTE, SP, "tvg-logo=", QUOTE>> \o logo
        \o <<QUOTE, SP, "group-title=", QUOTE>> \o group
        \o <<QUOTE, COMMA>> \o name \o <<NL>>
        \o url \o <<NL>>

RECURSIVE generate_m3u8_content(_)
generate_m3u8_content(chs) ==
    IF chs = <<>> THEN <<"#EXTM3U", NL>>
    ELSE generate_m3u8_content(SubSeq(chs, 1, Len(chs) - 1))
         \o ExtInf(Last(chs))

\* A parser that takes the name after the first comma, not the last.
ParseInfo_FirstComma(info_line, url_line) ==
    LET tvg_id == re_search("tvg-id=", info_line)
        tvg_logo == re_search("tvg-logo=", info_line)
        group_title == re_search("group-title=", info_line)
        pieces == split(info_line, COMMA)
    IN  [name |-> IF Len(pieces) >= 2 THEN pieces[2] ELSE pieces[1],
         url |-> url_line,
         logo |-> IF tvg_logo.matched THEN tvg_logo.group1 ELSE <<>>,
         group |-> IF group_title.matched THEN group_title.group1 ELSE <<>>,
         tvgId |-> IF tvg_id.matched THEN tvg_id.group1 ELSE <<>>]

\* The record of one info line and the line after it.
ParseInfo(info_line, url_line) ==
    LET tvg_id == re_search("tvg-id=", info_line)
        tvg_logo == re_search("tvg-logo=", info_line)
        group_title == re_search("group-title=", info_line)
    IN  [name |-> Last(split(info_line, COMMA)),
         url |-> url_line,
         logo |-> IF tvg_logo.matched THEN tvg_logo.group1 ELSE <<>>,
         group |-> IF group_title.matched THEN group_title.group1 ELSE <<>>,
         tvgId |-> IF tvg_id.matched THEN tvg_id.group1 ELSE <<>>]

\* A loop that looks at every line after the header, not at every other.
RECURSIVE ParsePairs_EveryLine(_, _)
ParsePairs_EveryLine(lines, i) ==
    IF i >= Len(lines) THEN <<>>
    ELSE LET info_line == lines[i + 1]
             url_line == IF i + 1 < Len(lines) THEN lines[i + 2] ELSE <<>>
         IN  (IF startswith(info_line, "#EXTINF:")
              THEN <<ParseInfo(info_line, url_line)>>
              ELSE <<>>)
             \o ParsePairs_EveryLine(lines, i + 1)

\* for i in range(1, len(lines), 2), with i counted from 0 as in the code
RECURSIVE ParsePairs(_, _)
ParsePairs(lines, i) ==
    IF i >= Len(lines) THEN <<>>
    ELSE LET info_line == lines[i + 1]
             url_line == IF i + 1 < Len(lines) THEN lines[i + 2] ELSE <<>>
         IN  (IF startswith(info_line, "#EXTINF:")
              THEN <<ParseInfo(info_line, url_line)>>
              ELSE <<>>)
             \o ParsePairs(lines, i + 2)

\* A parser that does not look for the header.
parse_m3u8_content_NoHeader(content) ==
    [raised |-> FALSE,
     value |-> ParsePairs(StrippedNonBlank(splitlines(content)), 1)]

\* raised: the ValueError of a missing header; value: the parsed list.
\* (In the handlers, parsed is import_m3u8's local parsed_list: it is gone
\* when another handler runs.)
parse_m3u8_content(content) ==
    IF ~startswith(strip(content), "#EXTM3U")
    THEN [raised |-> TRUE, value |-> <<>>]
    ELSE [raised |-> FALSE,
          value |-> ParsePairs(StrippedNonBlank(splitlines(content)), 1)]

----------------------------------------------------------------------------
(* Bounds *)

\* The longest channel list the handlers are let to build.
MaxChannels == 2
\* The number of ids: the loaded ones and those uuid.uuid4() returns.
MaxId == 2
\* The number of writes the environment makes fail.
MaxFaults == 1

----------------------------------------------------------------------------
(* channels.json *)

\* json.dump writes a str as a JSON string: a quote, a backslash and a line
\* break are written as escape sequences.
RECURSIVE JsonEscape(_)
JsonEscape(s) ==
    IF s = <<>> THEN <<>>
    ELSE (CASE Head(s) = QUOTE -> <<BACKSLASH, QUOTE>>
            [] Head(s) = BACKSLASH -> <<BACKSLASH, BACKSLASH>>
            [] Head(s) = NL -> <<BACKSLASH, "n">>
            [] OTHER -> <<Head(s)>>)
         \o JsonEscape(Tail(s))

\* json.load reads a JSON string back.
RECURSIVE JsonUnescape(_)
JsonUnescape(s) ==
    IF s = <<>> THEN <<>>
    ELSE IF Head(s) = BACKSLASH /\ Len(s) >= 2
         THEN (IF s[2] = "n" THEN <<NL>> ELSE <<s[2]>>)
              \o JsonUnescape(SubSeq(s, 3, Len(s)))
         ELSE <<Head(s)>> \o JsonUnescape(Tail(s))

\* A dump that leaves the tvgId out of the object.
JsonDump_NoTvgId(chs) ==
    [i \in 1..Len(chs) |->
        [id |-> chs[i].id,
         name |-> JsonEscape(chs[i].name),
         url |-> JsonEscape(chs[i].url),
         logo |-> JsonEscape(chs[i].logo),
         group |-> JsonEscape(chs[i].group),
         tvgId |-> <<>>]]

\* json.dump([asdict(ch) for ch in channels], f)
JsonDump(chs) ==
    [i \in 1..Len(chs) |->
        [id |-> chs[i].id,
         name |-> JsonEscape(chs[i].name),
         url |-> JsonEscape(chs[i].url),
         logo |-> JsonEscape(chs[i].logo),
         group |-> JsonEscape(chs[i].group),
         tvgId |-> JsonEscape(chs[i].tvgId)]]

\* [Channel(**item) for item in json.load(f)]
JsonLoad(data) ==
    [i \in 1..Len(data) |->
        [id |-> data[i].id,
         name |-> JsonUnescape(data[i].name),
         url |-> JsonUnescape(data[i].url),
         logo |-> JsonUnescape(data[i].logo),
         group |-> JsonUnescape(data[i].group),
         tvgId |-> JsonUnescape(data[i].tvgId)]]

\* The file channels.json: missing, whole (data is its JSON array) or cut
\* short by a write that failed after open(..., 'w') had emptied it.
NoFile == [state |-> "missing", data |-> <<>>]
CutFile == [state |-> "cut", data |-> <<>>]
WholeFile(chs) == [state |-> "whole", data |-> JsonDump(chs)]

\* What the environment does to a write: "ok"; "denied", open() raises
\* (PermissionError is an IOError); "full", the dump raises IOError midway.
Failures == {"denied", "full"}
Outcomes(budget) == IF budget > 0 THEN {"ok"} \cup Failures ELSE {"ok"}

\* save_channels(channels) under the write outcome w: the file afterwards,
\* how the call comes back to its caller, and what it prints.  The IOError
\* is caught inside, so the call returns None whatever w is.
save_channels(chs, old, w) ==
    [file |-> CASE w = "ok" -> WholeFile(chs)
                [] w = "denied" -> old
                [] OTHER -> CutFile,
     ret |-> "returned",
     printed |-> IF w = "ok" THEN "" ELSE "Erro ao salvar canais"]

\* load_channels(): [] for a missing file and for one that does not decode
load_channels(f) ==
    IF f.state = "whole" THEN JsonLoad(f.data) ELSE <<>>

----------------------------------------------------------------------------
(* Python list primitives used by on_rows_moved *)

\* list.pop(i): a negative index counts from the end; an index outside the
\* list raises IndexError and leaves the list as it is.
list_pop(l, i) ==
    LET k == IF i < 0 THEN i + Len(l) ELSE i
    IN  IF k < 0 \/ k >= Len(l)
        THEN [raised |-> TRUE, rest |-> l, item |-> <<>>]
        ELSE [raised |-> FALSE,
              rest |-> SubSeq(l, 1, k) \o SubSeq(l, k + 2, Len(l)),
              item |-> <<l[k + 1]>>]

\* An insert that puts the item after the index instead of at it.
list_insert_After(l, i, x) ==
    LET j == IF i < 0 THEN i + Len(l) ELSE i
        k == IF j + 1 > Len(l) THEN Len(l) ELSE IF j + 1 < 0 THEN 0 ELSE j + 1
    IN  SubSeq(l, 1, k) \o <<x>> \o SubSeq(l, k + 1, Len(l))

\* list.insert(i, x): never raises; the index is clamped to the list.
list_insert(l, i, x) ==
    LET j == IF i < 0 THEN i + Len(l) ELSE i
        k == IF j < 0 THEN 0 ELSE IF j > Len(l) THEN Len(l) ELSE j
    IN  SubSeq(l, 1, k) \o <<x>> \o SubSeq(l, k + 1, Len(l))

----------------------------------------------------------------------------
(* What the last handler did, as its caller and its user can see it *)

\* name: the handler; msg: the QMessageBox it showed; write: what the
\* environment did to the write of save_channels ("none": no write);
\* ret: how save_channels came back to the handler; printed: the console;
\* raised: the exception that left the handler; count: the number in the
\* import's success message.
Op(name, msg, write, ret, printed, raised, count) ==
    [name |-> name, msg |-> msg, write |-> write, ret |-> ret,
     printed |-> printed, raised |-> raised, count |-> count]

NoOp == Op("init", "", "none", "none", "", "", 0)

\* The playlist file save_m3u8_local writes.
NoExport == [written |-> FALSE, text |-> <<>>]

NotParsed == [raised |-> FALSE, value |-> <<>>]

----------------------------------------------------------------------------
(* ChannelForm *)

\* ChannelForm.get_data(): every field stripped
get_data(raw) ==
    [name |-> strip(raw.name), url |-> strip(raw.url),
     group |-> strip(raw.group), logo |-> strip(raw.logo),
     tvgId |-> strip(raw.tvgId)]

\* A form that forgets that the group is required.
FormValid_NoGroup(raw) ==
    ~(get_data(raw).name = <<>> \/ get_data(raw).url = <<>>)

\* The condition under which ChannelForm.accept closes the dialog.
FormValid(raw) ==
    ~(get_data(raw).name = <<>> \/ get_data(raw).url = <<>>
      \/ get_data(raw).group = <<>>)

\* dialog.exec(): the user presses Ok on each entry of tries in turn and
\* Cancel after the last.  accept() closes the dialog on the first entry
\* that is valid and warns about every entry before it.
RECURSIVE exec(_)
exec(tries) ==
    IF tries = <<>>
    THEN [accepted |-> FALSE, warned |-> FALSE, data |-> get_data(
             [name |-> <<>>, url |-> <<>>, group |-> <<>>, logo |-> <<>>,
              tvgId |-> <<>>])]
    ELSE IF FormValid(Head(tries))
         THEN [accepted |-> TRUE, warned |-> FALSE,
               data |-> get_data(Head(tries))]
         ELSE [exec(Tail(tries)) EXCEPT !.warned = TRUE]

Warning(session) == IF session.warned THEN "Campos Obrigatorios" ELSE ""

----------------------------------------------------------------------------
(* MainWindow *)

\* find_channel_by_id: the positions holding the id (the first is returned)
FindIndex(chs, channel_id) ==
    {i \in 1..Len(chs) : chs[i].id = channel_id}

\* A generator that repeats itself: every call returns the same id.
uuid4_Repeating(n) == 1

\* str(uuid.uuid4()): an id no record ever had
uuid4(n) == n

\* An import that numbers the records by their position.
Minted_ByPosition(parsed_list, n) ==
    [i \in 1..Len(parsed_list) |-> Channel(i, parsed_list[i])]

\* [Channel(id=str(uuid.uuid4()), **ch_data) for ch_data in parsed_list]
Minted(parsed_list, n) ==
    [i \in 1..Len(parsed_list) |-> Channel(uuid4(n + i - 1), parsed_list[i])]

\* [ch for ch in self.channels if ch.id != channel_id]
RECURSIVE Without(_, _)
Without(chs, channel_id) ==
    IF chs = <<>> THEN <<>>
    ELSE (IF Head(chs).id # channel_id THEN <<Head(chs)>> ELSE <<>>)
         \o Without(Tail(chs), channel_id)

\* The ids of a list's records.
IdsOf(chs) == {chs[i].id : i \in 1..Len(chs)}

\* save_channels as the last statement of a handler, under write outcome w.
\* (retired remembers the ids the list has lost; no code reads it.)
Saved(name, msg, count, w) ==
    \E s \in {save_channels(channels', file, w)} :
        /\ file' = s.file
        /\ faults' = IF w = "ok" THEN faults ELSE faults - 1
        /\ op' = Op(name, msg, w, s.ret, s.printed, "", count)
        /\ retired' = retired \cup (IdsOf(channels) \ IdsOf(channels'))

\* add_channel, dialog being how the run of the form ended
AddChannel(dialog, w) ==
    /\ IF ~dialog.accepted
       THEN /\ w = "ok"
            /\ op' = Op("add_channel", Warning(dialog), "none", "none",
                        "", "", 0)
            /\ UNCHANGED <<channels, file, nextId, faults, retired>>
       ELSE /\ channels' =
                  Append(channels, Channel(uuid4(nextId), dialog.data))
            /\ nextId' = nextId + 1
            /\ Saved("add_channel", Warning(dialog), 0, w)
    /\ parsed' = NotParsed
    /\ UNCHANGED exported
    /\ UNCHANGED request_vars

\* edit_channel, dialog being how the run of the form ended (the form
\* does not open when no record has the id)
EditChannel(channel_id, dialog, w) ==
    /\ IF FindIndex(channels, channel_id) = {}
       THEN /\ w = "ok"
            /\ dialog = exec(<<>>)
            /\ op' = Op("edit_channel", "", "none", "none", "", "", 0)
            /\ UNCHANGED <<channels, file, faults, retired>>
       ELSE   IF ~dialog.accepted
              THEN /\ w = "ok"
                   /\ op' = Op("edit_channel", Warning(dialog), "none",
                               "none", "", "", 0)
                   /\ UNCHANGED <<channels, file, faults, retired>>
              ELSE /\ LET i == CHOOSE k \in FindIndex(channels, channel_id) :
                                  \A m \in FindIndex(channels, channel_id) :
                                      k <= m
                      IN  channels' =
                            [channels EXCEPT ![i] =
                                Channel(channels[i].id, dialog.data)]
                   /\ Saved("edit_channel", Warning(dialog), 0, w)
    /\ parsed' = NotParsed
    /\ UNCHANGED <<nextId, exported>>
    /\ UNCHANGED request_vars

DeleteChannel(channel_id, yes, w) ==
    /\ IF FindIndex(channels, channel_id) = {} \/ ~yes
       THEN /\ w = "ok"
            /\ op' = Op("delete_channel", "", "none", "none", "", "", 0)
            /\ UNCHANGED <<channels, file, faults, retired>>
       ELSE /\ channels' = Without(channels, channel_id)
            /\ Saved("delete_channel", "", 0, w)
    /\ parsed' = NotParsed
    /\ UNCHANGED <<nextId, exported>>
    /\ UNCHANGED request_vars

\* import_m3u8 once the replacement is confirmed and a file is chosen whose
\* text is content
ImportM3u8(content, w) ==
    /\ \E parsed_list \in {parse_m3u8_content(content)} :
           /\ parsed' = parsed_list
           /\ IF parsed_list.raised
              THEN /\ w = "ok"
                   /\ op' = Op("import_m3u8", "Erro de Importacao", "none",
                               "none", "", "", 0)
                   /\ UNCHANGED <<channels, file, nextId, faults, retired>>
              ELSE /\ channels' = Minted(parsed_list.value, nextId)
                   /\ nextId' = nextId + Len(parsed_list.value)
                   /\ Saved("import_m3u8", "Sucesso", Len(channels'), w)
    /\ UNCHANGED exported
    /\ UNCHANGED request_vars

\* import_m3u8 left early: the replacement is declined, no file is chosen,
\* or the file cannot be read
ImportNothing(why) ==
    /\ why = "declined" => channels # <<>>
    /\ op' = Op("import_m3u8",
                IF why = "unreadable" THEN "Erro de Importacao" ELSE "",
                "none", "none", "", "", 0)
    /\ parsed' = NotParsed
    /\ UNCHANGED <<channels, file, nextId, exported, faults, retired>>
    /\ UNCHANGED request_vars

\* save_m3u8_local with a file name given; the write of the playlist file
\* can fail as any write can
SaveM3u8Local(w) ==
    /\ IF channels = <<>>
       THEN /\ w = "ok"
            /\ op' = Op("save_m3u8_local", "Lista Vazia", "none", "none",
                        "", "", 0)
            /\ UNCHANGED <<exported, faults>>
       ELSE /\ exported' =
                 CASE w = "ok" ->
                        [written |-> TRUE,
                         text |-> generate_m3u8_content(channels)]
                   [] w = "denied" -> exported
                   [] OTHER -> [written |-> TRUE, text |-> <<>>]
            /\ faults' = IF w = "ok" THEN faults ELSE faults - 1
            /\ op' = Op("save_m3u8_local",
                        IF w = "ok" THEN "Sucesso" ELSE "Erro ao Salvar",
                        "none", "none", "", "", 0)
    /\ parsed' = NotParsed
    /\ UNCHANGED <<channels, file, nextId, retired>>
    /\ UNCHANGED request_vars

\* on_rows_moved(parent, start, end, destination, row)
OnRowsMoved(start, row, w) ==
    /\ \E popped \in {list_pop(channels, start)} :
           IF popped.raised
           THEN /\ w = "ok"
                /\ op' = Op("on_rows_moved", "", "none", "none", "",
                            "IndexError", 0)
                /\ UNCHANGED <<channels, file, faults, retired>>
           ELSE /\ channels' = list_insert(popped.rest, row, popped.item[1])
                /\ Saved("on_rows_moved", "", 0, w)
    /\ parsed' = NotParsed
    /\ UNCHANGED <<nextId, exported>>
    /\ UNCHANGED request_vars

----------------------------------------------------------------------------
(* The manager: every handler, with writes that can fail *)

\* What the user types into the form: two complete entries, and entries
\* with a required field left empty or blank.
Typed(name, url, group, logo, tvgId) ==
    [name |-> name, url |-> url, group |-> group, logo |-> logo,
     tvgId |-> tvgId]

FormInputs_Blank == Typed(<<"a">>, <<SP>>, <<"g">>, <<>>, <<>>)

FormInputs ==
    {Typed(<<"a", SP>>, <<"u">>, <<"g">>, <<>>, <<>>),
     Typed(<<"a">>, <<"u">>, <<SP, "g">>, <<SP, "l">>, <<"t">>),
     Typed(<<>>, <<"u">>, <<"g">>, <<>>, <<>>),
     Typed(<<"a">>, <<"u">>, <<SP, NL>>, <<"l">>, <<>>),
     FormInputs_Blank}

\* The texts of the files the user imports.
ImportFiles ==
    {<<"hello">>,
     <<SP, "#EXTM3U", NL>>,
     <<"#EXTM3U", NL, "#EXTINF:", "-1", SP, "group-title=", QUOTE, "g",
       QUOTE, COMMA, "a", NL, "u", NL>>,
     <<NL, "#EXTM3U", NL, "#EXTINF:", "-1", SP, "group-title=", QUOTE, "g",
       QUOTE, COMMA, "a", NL, SP, "u", NL, NL,
       "#EXTINF:", "-1", SP, "tvg-id=", QUOTE, "t", QUOTE, SP, "tvg-logo=",
       QUOTE, "l", QUOTE, SP, "group-title=", QUOTE, "g", QUOTE, COMMA, "a",
       NL, "u">>,
     <<"#EXTM3U", NL, "junk", NL, "#EXTINF:", "-1", COMMA, "a", NL, "u">>}

\* What the user does in one run of the form: Cancel at once, or Ok on
\* one or two entries.
FormTries ==
    {<<>>} \cup {<<r>> : r \in FormInputs}
    \cup {<<FormInputs_Blank, r>> : r \in FormInputs}

\* How each of these runs of the form ends.
SessionOf == [tries \in FormTries |-> exec(tries)]
Sessions == {SessionOf[tries] : tries \in FormTries}

\* The record a store left by an earlier run holds.
Stored == [name |-> <<"a">>, url |-> <<"u">>, logo |-> <<>>,
           group |-> <<"g">>, tvgId |-> <<>>]

\* channels.json as an earlier run left it; that run minted the id 1.
InitFiles == {NoFile, CutFile, WholeFile(<<Channel(1, Stored)>>)}

\* MainWindow.__init__: self.channels = load_channels()
Init ==
    /\ file \in InitFiles
    /\ channels = load_channels(file)
    /\ nextId = Len(channels) + 1
    /\ op = NoOp
    /\ exported = NoExport
    /\ parsed = NotParsed
    /\ faults = MaxFaults
    /\ retired = {}
    /\ NoRequest

\* The ids a button or a stale item can name.
Ids == 1..MaxId
\* The rows a move can name.
Rows == (0 - 1)..MaxChannels

\* The bounds: a record is added while the list is short and an id is
\* left, and an import mints no more ids than are left.
Room == Len(channels) < MaxChannels /\ nextId <= MaxId
Within == Len(channels') <= MaxChannels /\ nextId' <= MaxId + 1

Next ==
    \/ \E dialog \in Sessions, w \in Outcomes(faults) :
          Room /\ AddChannel(dialog, w)
    \/ \E id \in Ids, dialog \in Sessions, w \in Outcomes(faults) :
          EditChannel(id, dialog, w)
    \/ \E id \in Ids, yes \in BOOLEAN, w \in Outcomes(faults) :
          DeleteChannel(id, yes, w)
    \/ \E content \in ImportFiles, w \in Outcomes(faults) :
          ImportM3u8(content, w) /\ Within
    \/ \E why \in {"declined", "cancelled", "unreadable"} : ImportNothing(why)
    \/ \E start \in Rows, row \in Rows, w \in Outcomes(faults) :
          OnRowsMoved(start, row, w)

Spec == Init /\ [][Next]_vars

----------------------------------------------------------------------------
(* Reordering alone: on_rows_moved on lists of up to MaxRows records *)

MaxRows == 4

\* The record with the given id in the lists that are reordered.
Row(id) == Channel(id, Stored)

\* Every write succeeds here: the budget of failing writes is empty.
InitReorder ==
    /\ \E n \in 0..MaxRows : \E ids \in [1..n -> 1..MaxRows] :
          /\ \A i, j \in 1..n : ids[i] = ids[j] => i = j
          /\ channels = [i \in 1..n |-> Row(ids[i])]
    /\ file = WholeFile(channels)
    /\ nextId = MaxRows + 1
    /\ op = NoOp
    /\ exported = NoExport
    /\ parsed = NotParsed
    /\ faults = 0
    /\ retired = {}
    /\ NoRequest

\* The rows the signal can carry: every index of the list, and indices
\* outside it on both sides.
MoveRows == (0 - 2)..MaxRows

NextReorder ==
    \E start \in MoveRows, row \in MoveRows, w \in Outcomes(faults) :
        OnRowsMoved(start, row, w)

SpecReorder == InitReorder /\ [][NextReorder]_vars

----------------------------------------------------------------------------
(* The codec alone: generate_m3u8_content, then parse_m3u8_content *)

MaxRecords == 2

\* The texts a field is given: empty, plain, with white space around it,
\* with a comma, a quote or a line break in it, and the two attribute keys
\* the parser searches for after the first attribute.
FieldTexts ==
    {<<>>, <<"a">>, <<SP, "a", NL>>, <<"a", COMMA, "b">>, <<COMMA>>,
     <<"a", QUOTE>>, <<"a", NL, "b">>, <<"tvg-logo=">>, <<"group-title=">>}

Plain == [name |-> <<"n">>, url |-> <<"u">>, logo |-> <<>>,
          group |-> <<"g">>, tvgId |-> <<>>]

\* The records given to the codec: Plain with one field replaced.
CodecRecords ==
    {[Plain EXCEPT !.name = t] : t \in FieldTexts}
    \cup {[Plain EXCEPT !.url = t] : t \in FieldTexts}
    \cup {[Plain EXCEPT !.logo = t] : t \in FieldTexts}
    \cup {[Plain EXCEPT !.group = t] : t \in FieldTexts}
    \cup {[Plain EXCEPT !.tvgId = t] : t \in FieldTexts}

InitCodec ==
    /\ \E n \in 0..MaxRecords : \E rs \in [1..n -> CodecRecords] :
          channels = [i \in 1..n |-> Channel(i, rs[i])]
    /\ file = NoFile
    /\ nextId = Len(channels) + 1
    /\ op = NoOp
    /\ exported = NoExport
    /\ parsed = NotParsed
    /\ faults = 0
    /\ retired = {}
    /\ NoRequest

\* content = generate_m3u8_content(channels)
Generate ==
    /\ op.name = "init"
    /\ exported' = [written |-> TRUE, text |-> generate_m3u8_content(channels)]
    /\ op' = Op("generate", "", "none", "none", "", "", 0)
    /\ UNCHANGED <<channels, file, nextId, parsed, faults, retired>>
    /\ UNCHANGED request_vars

\* parse_m3u8_content(content)
Parse ==
    /\ op.name = "generate"
    /\ parsed' = parse_m3u8_content(exported.text)
    /\ op' = Op("parse", "", "none", "none", "", "", 0)
    /\ UNCHANGED <<channels, file, nextId, exported, faults, retired>>
    /\ UNCHANGED request_vars

NextCodec == Generate \/ Parse

SpecCodec == InitCodec /\ [][NextCodec]_vars

\* ---------------------------------------------------------------------
\* The export and import cycle: the user builds a list with the form, the
\* import and the row moves, exports it with save_m3u8_local, and imports
\* the file just written.  No write fails.

\* What the user types in the form: a record with every field, one with a
\* comma in its name and one with a quote in its group.
CycleForms ==
    {Typed(<<"a">>, <<"u">>, <<"g">>, <<"l">>, <<"t">>),
     Typed(<<"a", COMMA, "b">>, <<"u">>, <<"g">>, <<>>, <<>>),
     Typed(<<"a">>, <<"u">>, <<"g", QUOTE>>, <<>>, <<>>)}

CycleSessions == {exec(<<>>)} \cup {exec(<<r>>) : r \in CycleForms}

\* Playlists from elsewhere: a name with a space before it, and an info
\* line with no url line after it.
CycleFiles ==
    {<<"#EXTM3U", NL, "#EXTINF:", "-1", COMMA, SP, "a", NL, "u", NL>>,
     <<"#EXTM3U", NL, "#EXTINF:", "-1", COMMA, "b">>}

InitCycle ==
    /\ file = NoFile
    /\ channels = load_channels(file)
    /\ nextId = 1
    /\ op = NoOp
    /\ exported = NoExport
    /\ parsed = NotParsed
    /\ faults = 0
    /\ retired = {}
    /\ NoRequest

Building == ~exported.written

\* The import of the exported file mints one id for each record of it.
CycleIds == MaxId + MaxChannels

NextCycle ==
    \/ \E dialog \in CycleSessions :
          Building /\ Room /\ AddChannel(dialog, "ok")
    \/ \E id \in Ids, dialog \in CycleSessions :
          Building /\ EditChannel(id, dialog, "ok")
    \/ \E id \in Ids : Building /\ DeleteChannel(id, TRUE, "ok")
    \/ \E content \in CycleFiles :
          Building /\ ImportM3u8(content, "ok") /\ Within
    \/ \E start \in Rows, row \in Rows :
          Building /\ OnRowsMoved(start, row, "ok")
    \/ Building /\ SaveM3u8Local("ok")
    \/ /\ exported.written
       /\ op.name = "save_m3u8_local"
       /\ ImportM3u8(exported.text, "ok")
       /\ nextId' <= CycleIds + 1

SpecCycle == InitCycle /\ [][NextCycle]_vars

\* ---------------------------------------------------------------------
\* The parser on the text of a playlist file from elsewhere: the file is
\* there at the start and import_m3u8 reads and parses it.

\* The longest file, in lines.
MaxLines == 4

\* The lines of such a file: empty, blank, the header, an info line with
\* white space around it, one with an attribute, a url and a line that is
\* neither.
FileLines ==
    {<<>>, <<SP>>, <<"#EXTM3U">>,
     <<SP, "#EXTINF:", "-1", COMMA, "a", SP>>,
     <<"#EXTINF:", "-1", SP, "group-title=", QUOTE, "g", QUOTE, COMMA, "b">>,
     <<"u">>, <<"junk">>}

\* "\n".join(ls)
RECURSIVE Joined(_)
Joined(ls) ==
    IF ls = <<>> THEN <<>>
    ELSE IF Len(ls) = 1 THEN ls[1]
    ELSE ls[1] \o <<NL>> \o Joined(Tail(ls))

InitParse ==
    /\ \E n \in 0..MaxLines : \E ls \in [1..n -> FileLines] :
          exported = [written |-> TRUE, text |-> Joined(ls)]
    /\ channels = <<>>
    /\ file = NoFile
    /\ nextId = 1
    /\ op = NoOp
    /\ parsed = NotParsed
    /\ faults = 0
    /\ retired = {}
    /\ NoRequest

\* content = f.read(); parsed_list = parse_m3u8_content(content)
ParseText ==
    /\ op.name = "init"
    /\ parsed' = parse_m3u8_content(exported.text)
    /\ op' = Op("parse_text", "", "none", "none", "", "", 0)
    /\ UNCHANGED <<channels, file, nextId, exported, faults, retired>>
    /\ UNCHANGED request_vars

NextParse == ParseText

SpecParse == InitParse /\ [][NextParse]_vars

\* ---------------------------------------------------------------------
\* The converter (src/iptv_request.py): main reads the JSON files named on
\* the command line, process_json_file appends two lines for each item,
\* and main writes the lines to playlist_completa.m3u8.

SERVER == "http://testeeng.com:80"
USERNAME == "938915698"
PASSWORD == "H788v6338E"

\* What dict.get gives for a missing key and no default.
None == "None"

\* item.get(key, default)
Get(item, key, default) ==
    IF key \in DOMAIN item THEN item[key] ELSE default

\* The lines of the playlist, by the values the f-strings put in them.
HeaderLine == [kind |-> "#EXTM3U"]
ExtInfLine(tvg_id, icon, stream_type, name) ==
    [kind |-> "#EXTINF", tvg_id |-> tvg_id, tvg_logo |-> icon,
     group_title |-> stream_type, name |-> name]
UrlLine(path, id, ext) ==
    [kind |-> "url", server |-> SERVER, path |-> path, username |-> USERNAME,
     password |-> PASSWORD, id |-> id, ext |-> ext]

\* The longest list of items in one JSON file.
MaxItems == 2

\* The items of the JSON files: live, movie and series items with their
\* ids (as the f-strings print them), and one of a type the converter does
\* not know.
Items ==
    {[name |-> "n", stream_type |-> "live", stream_id |-> "1"],
     [name |-> "m", stream_type |-> "movie", stream_id |-> "2",
      stream_icon |-> "i"],
     [name |-> "s", stream_type |-> "series", series_id |-> "1"],
     [name |-> "t", stream_type |-> "series", series_id |-> "3"],
     [name |-> "x", stream_type |-> "radio", stream_id |-> "4"]}

\* A file is a list of items, or one that json.load cannot read.
Unreadable == [readable |-> FALSE, items |-> <<>>]
JsonFiles ==
    {Unreadable}
    \cup {[readable |-> TRUE, items |-> is] :
            is \in UNION {[1..n -> Items] : n \in 0..MaxItems}}

\* main: json_files = sys.argv[1:]; playlist_lines = ["#EXTM3U"]
InitRequest ==
    /\ \E n \in 0..2 : json_files \in [1..n -> JsonFiles]
    /\ items = <<>>
    /\ playlist_lines = <<HeaderLine>>
    /\ stream_id = Unbound
    /\ pc = "start"
    /\ channels = <<>>
    /\ file = NoFile
    /\ nextId = 1
    /\ op = NoOp
    /\ exported = NoExport
    /\ parsed = NotParsed
    /\ faults = 0
    /\ retired = {}

store_vars ==
    <<channels, file, nextId, op, exported, parsed, faults, retired>>

\* main with no file named: the usage message and sys.exit(1)
Usage ==
    /\ pc = "start"
    /\ json_files = <<>>
    /\ pc' = "exit"
    /\ UNCHANGED <<json_files, items, playlist_lines, stream_id>>
    /\ UNCHANGED store_vars

\* main's loop calls process_json_file for the next file; the call starts
\* with no local bound, and returns at once when the file cannot be read
\* (a file that is not there is passed over by main, to the same effect).
Call ==
    /\ pc \in {"start", "main"}
    /\ json_files # <<>>
    /\ json_files' = Tail(json_files)
    /\ stream_id' = Unbound
    /\ IF Head(json_files).readable
       THEN items' = Head(json_files).items /\ pc' = "loop"
       ELSE items' = <<>> /\ pc' = "main"
    /\ UNCHANGED playlist_lines
    /\ UNCHANGED store_vars

\* One turn of the loop over the items (lines 21-43).  The f-string of
\* line 41 reads the local stream_id: when no live or movie item of this
\* call has bound it, that raises UnboundLocalError, which nothing catches.
ProcessItem ==
    /\ pc = "loop"
    /\ items # <<>>
    /\ items' = Tail(items)
    /\ LET item == Head(items)
           name == Get(item, "name", "Sem Nome")
           icon == Get(item, "stream_icon", "")
           stream_type == Get(item, "stream_type", "live")
           bound == IF stream_type \in {"live", "movie"}
                    THEN Get(item, "stream_id", None)
                    ELSE stream_id
           url == CASE stream_type = "live" -> UrlLine("live", bound, ".ts")
                    [] stream_type = "movie" -> UrlLine("movie", bound, ".mp4")
                    [] OTHER -> UrlLine("series",
                                        Get(item, "series_id", None), ".mp4")
       IN  IF stream_type \notin {"live", "movie", "series"}
           THEN UNCHANGED <<playlist_lines, stream_id, pc>>
           ELSE /\ stream_id' = bound
                /\ IF bound = Unbound
                   THEN pc' = "raised" /\ UNCHANGED playlist_lines
                   ELSE /\ playlist_lines' =
                             playlist_lines
                             \o <<ExtInfLine(bound, icon, stream_type, name),
                                  url>>
                        /\ UNCHANGED pc
    /\ UNCHANGED json_files
    /\ UNCHANGED store_vars

\* process_json_file returns when the items are through.
Return ==
    /\ pc = "loop"
    /\ items = <<>>
    /\ pc' = "main"
    /\ UNCHANGED <<json_files, items, playlist_lines, stream_id>>
    /\ UNCHANGED store_vars

\* main writes "\n".join(playlist_lines) to the output file.
WritePlaylist ==
    /\ pc = "main"
    /\ json_files = <<>>
    /\ pc' = "written"
    /\ UNCHANGED <<json_files, items, playlist_lines, stream_id>>
    /\ UNCHANGED store_vars

NextRequest == Usage \/ Call \/ ProcessItem \/ Return \/ WritePlaylist

SpecRequest == InitRequest /\ [][NextRequest]_vars

----------------------------------------------------------------------------
(* The step just taken as a step of a handler *)

\* The write outcome under which the step just taken ran its handler.
StepWrite == IF op'.write = "none" THEN "ok" ELSE op'.write

AddStep(tries) == AddChannel(SessionOf[tries], StepWrite)
EditStep(id, tries) == EditChannel(id, SessionOf[tries], StepWrite)
ImportStep(content) == ImportM3u8(content, StepWrite)
MoveStep(start, row) == OnRowsMoved(start, row, StepWrite)

\* The required fields of a record are non-empty after trimming.
Required(ch) ==
    strip(ch.name) # <<>> /\ strip(ch.url) # <<>> /\ strip(ch.group) # <<>>

\* l without its k-th element (k counted from 1)
Drop(l, k) == SubSeq(l, 1, k - 1) \o SubSeq(l, k + 1, Len(l))

IdSeq(chs) == [i \in 1..Len(chs) |-> chs[i].id]

\* The five fields of a record, each trimmed.
Trimmed(ch) ==
    [name |-> strip(ch.name), url |-> strip(ch.url), logo |-> strip(ch.logo),
     group |-> strip(ch.group), tvgId |-> strip(ch.tvgId)]

Has(s, token) == \E i \in 1..Len(s) : s[i] = token

AnyFieldHas(ch, token) ==
    \/ Has(ch.name, token) \/ Has(ch.url, token) \/ Has(ch.logo, token)
    \/ Has(ch.group, token) \/ Has(ch.tvgId, token)

\* A record the playlist format can carry.  Of its trimmed fields: none
\* has a line break in it; the tvg id, the logo and the group have no
\* quote; the name has no comma; no attribute written before tvg-logo=
\* (the tvg id, the name) has that key in it, and none written before
\* group-title= (the tvg id, the name, the logo) has that one; the url is
\* not empty.
Carried(ch) ==
    LET t == Trimmed(ch)
    IN  /\ ~AnyFieldHas(t, NL)
        /\ ~Has(t.tvgId, QUOTE) /\ ~Has(t.logo, QUOTE) /\ ~Has(t.group, QUOTE)
        /\ ~Has(t.name, COMMA)
        /\ ~Has(t.tvgId, "tvg-logo=") /\ ~Has(t.name, "tvg-logo=")
        /\ ~Has(t.tvgId, "group-title=") /\ ~Has(t.name, "group-title=")
        /\ ~Has(t.logo, "group-title=")
        /\ t.url # <<>>

----------------------------------------------------------------------------
(* Claims *)

\* C1 as claimed: for a non-empty list of records with non-empty trimmed
\* name, url and group and no quote in any field, parsing the generated
\* text gives as many records, equal to the originals field by field.
C1_RoundTrip_Claimed ==
    (/\ op.name = "parse"
     /\ channels # <<>>
     /\ \A i \in 1..Len(channels) :
           Required(channels[i]) /\ ~AnyFieldHas(channels[i], QUOTE))
       => /\ ~parsed.raised
          /\ Len(parsed.value) = Len(channels)
          /\ \A i \in 1..Len(channels) :
                parsed.value[i] = Fields(channels[i])

\* C1: for a non-empty list of records with non-empty trimmed name, url
\* and group in which no field has a quote in it, and whose trimmed fields
\* have no line break, no comma in the name, no tvg-logo= in the tvg id or
\* the name and no group-title= in the tvg id, the name or the logo,
\* parsing the generated text gives as many records, in the same order,
\* each equal to the original with its fields trimmed.
C1_RoundTrip ==
    (/\ op.name = "parse"
     /\ channels # <<>>
     /\ \A i \in 1..Len(channels) :
           /\ Required(channels[i])
           /\ ~AnyFieldHas(channels[i], QUOTE)
           /\ Carried(channels[i]))
       => /\ ~parsed.raised
          /\ Len(parsed.value) = Len(channels)
          /\ \A i \in 1..Len(channels) :
                parsed.value[i] = Trimmed(channels[i])

\* Two different records that the format can carry have been generated
\* and parsed, one of them with white space to trim.
C1_Witness ==
    /\ op.name = "parse"
    /\ Len(channels) = 2
    /\ \A i \in 1..2 :
          /\ Required(channels[i])
          /\ ~AnyFieldHas(channels[i], QUOTE)
          /\ Carried(channels[i])
    /\ Fields(channels[1]) # Fields(channels[2])
    /\ \E i \in 1..2 : Trimmed(channels[i]) # Fields(channels[i])

\* C2: no two records of the list have the same id, an edit leaves every
\* record's id (and place) as it was, and an id the list has lost (by a
\* delete or an import) is the id of no record of the list afterwards.
C2_UniqueIds ==
    /\ [](/\ \A i, j \in 1..Len(channels) :
               channels[i].id = channels[j].id => i = j
          /\ IdsOf(channels) \cap retired = {})
    /\ [][op'.name = "edit_channel" => IdSeq(channels') = IdSeq(channels)]_vars

\* A record was added, and minted an id, after the list had lost an id.
C2_Witness ==
    /\ channels # <<>>
    /\ retired # {}
    /\ op.name = "add_channel"
    /\ op.write # "none"

\* C3: a move with start and row inside the list gives a list of the same
\* length with the moved record at index row and the other records in the
\* order they had; move(0, 2) on [1,2,3,4] gives [2,3,1,4].
C3_Reorder ==
    [][\A start, row \in 0..(Len(channels) - 1) :
          MoveStep(start, row) =>
             /\ op'.raised = ""
             /\ Len(channels') = Len(channels)
             /\ channels'[row + 1] = channels[start + 1]
             /\ Drop(channels', row + 1) = Drop(channels, start + 1)
             /\ (IdSeq(channels) = <<1, 2, 3, 4>> /\ start = 0 /\ row = 2
                   => IdSeq(channels') = <<2, 3, 1, 4>>)]_vars

\* A move has produced [2,3,1,4].
C3_Witness ==
    /\ op.name = "on_rows_moved"
    /\ op.raised = ""
    /\ IdSeq(channels) = <<2, 3, 1, 4>>

\* The runs of the form that start with an entry lacking a required
\* field, and those with no entry that has them all.
RunsWarned == {tries \in FormTries : tries # <<>> /\ ~Required(Head(tries))}
RunsRejected ==
    {tries \in FormTries : \A k \in 1..Len(tries) : ~Required(tries[k])}

C4_Step(tries) ==
    /\ tries \in RunsWarned => op'.msg = "Campos Obrigatorios"
    /\ tries \in RunsRejected => channels' = channels /\ file' = file

\* C4: in a run of the form, an entry whose name, url or group is empty
\* after trimming is answered with the warning; a run with no valid entry
\* changes neither the list nor the file; and every record a run adds or
\* changes has non-empty trimmed name, url and group.
C4_Validation ==
    [][/\ op'.name = "add_channel" =>
             \A tries \in FormTries :
                \/ C4_Step(tries)
                \/ op'.msg # Warning(SessionOf[tries])
                \/ ~AddStep(tries)
       /\ op'.name = "edit_channel" =>
             \A tries \in FormTries :
                \/ C4_Step(tries)
                \/ op'.msg # Warning(SessionOf[tries])
                \/ \A id \in IdsOf(channels) : ~EditStep(id, tries)
       /\ op'.name \in {"add_channel", "edit_channel"} =>
             \A i \in 1..Len(channels') :
                (i > Len(channels) \/ channels'[i] # channels[i])
                   => Required(channels'[i])]_vars

\* The form has warned and the handler has written nothing.
C4_Witness ==
    /\ op.name \in {"add_channel", "edit_channel"}
    /\ op.msg = "Campos Obrigatorios"
    /\ op.write = "none"
    /\ channels # <<>>

\* C5: an import of a text whose trimmed form does not start with #EXTM3U
\* raises in the parser, shows the import error, and leaves the list and
\* the file as they were.
C5_BadHeader ==
    [][\A content \in ImportFiles :
          (/\ op'.name = "import_m3u8"
           /\ ~startswith(strip(content), "#EXTM3U")
           /\ ImportStep(content))
             => /\ parsed'.raised
                /\ op'.msg = "Erro de Importacao"
                /\ op'.write = "none"
                /\ channels' = channels
                /\ file' = file]_vars

\* An import has failed in the parser while the list held a record.
C5_Witness ==
    /\ op.name = "import_m3u8"
    /\ parsed.raised
    /\ channels # <<>>

\* C6: after an import that succeeded the list is the parsed records in
\* parse order, the count shown is its length, every id is new (no record
\* had it before and ids do not repeat), and no id of the old list is found.
C6_Replace ==
    [][(op'.name = "import_m3u8" /\ op'.msg = "Sucesso") =>
          /\ Len(channels') = Len(parsed'.value)
          /\ \A i \in 1..Len(channels') :
                Fields(channels'[i]) = parsed'.value[i]
          /\ op'.count = Len(channels')
          /\ \A i \in 1..Len(channels') :
                /\ channels'[i].id \notin IdsOf(channels) \cup retired
                /\ \A j \in 1..Len(channels') :
                      channels'[i].id = channels'[j].id => i = j
          /\ \A id \in IdsOf(channels) : FindIndex(channels', id) = {}]_vars

\* An import has replaced a list that held a record.
C6_Witness ==
    /\ op.name = "import_m3u8"
    /\ op.msg = "Sucesso"
    /\ channels # <<>>
    /\ retired # {}

\* C7: when the write of the last handler succeeded, channels.json holds
\* the list as it is in memory, and loading it gives that list back.
C7_Persisted ==
    op.write = "ok" =>
       /\ file = WholeFile(channels)
       /\ load_channels(file) = channels

\* A handler has written a list of two records.
C7_Witness ==
    /\ op.write = "ok"
    /\ Len(channels) = 2
    /\ \E i \in 1..2 : channels[i].tvgId # <<>>

\* C8: when the write of save_channels fails, the handler that called it
\* learns of it (the call does not come back as a successful one does),
\* and the file is not written by a second attempt.
C8_Reported ==
    [][op'.write \in Failures =>
          /\ op'.ret = "raised"
          /\ file' \in {file, CutFile}]_vars

\* C9: a move whose start or row is outside the list raises IndexError and
\* leaves the list and the file as they were.
C9_IndexError ==
    [][\A start, row \in MoveRows :
          (/\ MoveStep(start, row)
           /\ ~(start \in 0..(Len(channels) - 1)
                /\ row \in 0..(Len(channels) - 1)))
             => /\ op'.raised = "IndexError"
                /\ channels' = channels
                /\ file' = file]_vars

\* An export that succeeded followed by the import of the file it wrote.
CycleStep ==
    /\ op.name = "save_m3u8_local"
    /\ op.msg = "Sucesso"
    /\ op'.name = "import_m3u8"
    /\ exported.text = generate_m3u8_content(channels)
    /\ ImportM3u8(exported.text, "ok")

\* C10 as claimed: after an export followed by the import of the exported
\* file, the list has as many records as before, each with the name, url,
\* logo, group and tvg id of the record that was at its place, and no id
\* of the list is an id the list had before the export.
C10_Cycle_Claimed ==
    [][CycleStep =>
          /\ Len(channels') = Len(channels)
          /\ \A i \in 1..Len(channels) :
                 /\ i <= Len(channels')
                 /\ Fields(channels'[i]) = Fields(channels[i])
          /\ \A i \in 1..Len(channels') :
                 channels'[i].id \notin IdsOf(channels)]_vars

\* C10: after an export followed by the import of the exported file, no
\* id of the list is an id the list had before the export; and when every
\* record of the list is one the format can carry (of its trimmed fields
\* none has a line break, the tvg id, logo and group have no quote, the
\* name has no comma, the tvg id and name have no tvg-logo=, the tvg id,
\* name and logo have no group-title=, and the url is not empty), the list
\* has as many records as before, each with the trimmed name, url, logo,
\* group and tvg id of the record that was at its place.
C10_Cycle ==
    [][CycleStep =>
          /\ \A i \in 1..Len(channels') :
                 channels'[i].id \notin IdsOf(channels)
          /\ (\A i \in 1..Len(channels) : Carried(channels[i]))
                => /\ Len(channels') = Len(channels)
                   /\ \A i \in 1..Len(channels) :
                          Fields(channels'[i]) = Trimmed(channels[i])]_vars

\* The import of an exported file has put two records in the list, the
\* ones the export wrote, one of them with a logo and a tvg id.
C10_Witness ==
    /\ exported.written
    /\ op.name = "import_m3u8"
    /\ Len(channels) = 2
    /\ exported.text = generate_m3u8_content(channels)
    /\ \A i \in 1..2 : Carried(channels[i])
    /\ \E i \in 1..2 : channels[i].logo # <<>> /\ channels[i].tvgId # <<>>

\* C11: when the trimmed text starts with #EXTM3U the parse does not
\* raise.  Of the non-blank lines, counted from 0, those at the odd places
\* that start with #EXTINF: are the info lines: the result has one record
\* for each of them and no other, in their order, with the name after the
\* last comma of the info line and the line after it as url, or the empty
\* url when no line follows; a text of the header alone gives no record.
C11_Pairing ==
    LET lines == StrippedNonBlank(splitlines(exported.text))
        Infos == {i \in 1..(Len(lines) - 1) :
                     i % 2 = 1 /\ startswith(lines[i + 1], "#EXTINF:")}
        Rank(i) == Cardinality({m \in Infos : m <= i})
    IN  (op.name = "parse_text" /\ startswith(strip(exported.text), "#EXTM3U"))
          => /\ ~parsed.raised
             /\ Len(parsed.value) = Cardinality(Infos)
             /\ \A i \in Infos :
                   /\ parsed.value[Rank(i)].name =
                         Last(split(lines[i + 1], COMMA))
                   /\ parsed.value[Rank(i)].url =
                         IF i + 1 < Len(lines) THEN lines[i + 2] ELSE <<>>
             /\ Len(lines) = 1 => parsed.value = <<>>

\* A file of the header, a pair that is skipped and a last info line with
\* no line after it has been parsed.
C11_Witness ==
    LET lines == StrippedNonBlank(splitlines(exported.text))
    IN  /\ op.name = "parse_text"
        /\ ~parsed.raised
        /\ Len(lines) = 4
        /\ ~startswith(lines[2], "#EXTINF:")
        /\ Len(parsed.value) = 1
        /\ parsed.value[1].url = <<>>

\* C12: a turn of the converter's loop on an item of a known stream type
\* appends exactly two lines, an info line whose tvg-id is the item's own
\* id (stream_id of a live or movie item, series_id of a series item) and
\* a url line with that same id; a turn on an item of an unknown type
\* appends nothing.
C12_OwnId ==
    [][(pc = "loop" /\ items # <<>>) =>
          LET item == Head(items)
              n == Len(playlist_lines)
              own == IF item.stream_type = "series"
                     THEN item.series_id ELSE item.stream_id
          IN  IF item.stream_type \in {"live", "movie", "series"}
              THEN /\ Len(playlist_lines') = n + 2
                   /\ SubSeq(playlist_lines', 1, n) = playlist_lines
                   /\ playlist_lines'[n + 1].kind = "#EXTINF"
                   /\ playlist_lines'[n + 1].tvg_id = own
                   /\ playlist_lines'[n + 2].kind = "url"
                   /\ playlist_lines'[n + 2].id = own
              ELSE playlist_lines' = playlist_lines]_vars

====
